---- MODULE Spec2Model ----
(***************************************************************************)
(* whatsapp-me: the webhook server (message-manager.ts), the reply-wait    *)
(* table of the MCP tool handler (index.ts) and the webhook security       *)
(* functions (webhook-security.ts).                                        *)
(*                                                                         *)
(* Strings are sequences of one-character strings, so that the code's      *)
(* character-level work (regex replace, startsWith, substring, hex         *)
(* decoding, charCodeAt) is computed and not assumed.                      *)
(***************************************************************************)
EXTENDS Integers, Sequences, FiniteSets, TLC

VARIABLES
    \* index.ts / message-manager.ts: the server
    userPhoneNumber,        \* config.userPhoneNumber (raw, as configured)
    pendingResponses,       \* index.ts:48 Map normalized number -> waiting call
    calls,                  \* send_message tool calls, in the order they were made
    regOrder,               \* the calls that registered a reply-wait, in registration order
    activeConversations,    \* message-manager.ts:61 Map id -> ConversationState (insertion order)
    phoneToConversationId,  \* message-manager.ts:62 Map raw phone -> id
    currentConversationId,  \* message-manager.ts:65
    deliveries,             \* POST /webhook requests, in the order their body completed
    received,               \* history: the table as it was when each delivery was received
    gateway,                \* calls made on the WhatsApp provider
    \* webhook-security.ts: validateMetaWhatsAppSignature seen as a function
    sigIn, sigOut,
    \* GET /webhook: the verification handshake
    getIn, getOut,
    \* the result of a get_conversation_history tool call
    histOut,
    \* normalizePhoneNumber seen as a function
    normIn, normOut,
    \* startup: the environment and the outcome of main()
    cfgIn, cfgOut,
    \* the runs of the stop hook script, in order
    hookRuns

serverVars == <<userPhoneNumber, pendingResponses, calls, regOrder, activeConversations,
                phoneToConversationId, currentConversationId, deliveries, received,
                gateway>>
sigVars == <<sigIn, sigOut>>
getVars == <<getIn, getOut>>
histVars == <<histOut>>
normVars == <<normIn, normOut>>
cfgVars == <<cfgIn, cfgOut>>
hookVars == <<hookRuns>>
auxVars == <<sigVars, getVars, histVars, normVars, cfgVars, hookVars>>
vars == <<serverVars, auxVars>>

\* A value that is no string: undefined / null in the code.
Null == <<"<null>">>

(***************************************************************************)
(* Characters and numbers                                                  *)
(***************************************************************************)
Digits == {"0", "1", "2", "3", "4", "5", "6", "7", "8", "9"}
LowerHex == {"a", "b", "c", "d", "e", "f"}
UpperHex == {"A", "B", "C", "D", "E", "F"}

\* The hexadecimal digits, in order of value.
HexDigitSeq == <<"0", "1", "2", "3", "4", "5", "6", "7", "8", "9", "a", "b", "c", "d", "e", "f">>

\* String.prototype.charCodeAt for the characters the model uses (ASCII).
charCodeAt(c) ==
    CASE c = "0" -> 48 [] c = "1" -> 49 [] c = "2" -> 50 [] c = "3" -> 51
      [] c = "4" -> 52 [] c = "5" -> 53 [] c = "6" -> 54 [] c = "7" -> 55
      [] c = "8" -> 56 [] c = "9" -> 57
      [] c = "A" -> 65 [] c = "B" -> 66 [] c = "C" -> 67 [] c = "D" -> 68
      [] c = "E" -> 69 [] c = "F" -> 70
      [] c = "a" -> 97 [] c = "b" -> 98 [] c = "c" -> 99 [] c = "d" -> 100
      [] c = "e" -> 101 [] c = "f" -> 102 [] c = "g" -> 103 [] c = "h" -> 104
      [] c = "s" -> 115 [] c = "x" -> 120 [] c = "y" -> 121 [] c = "z" -> 122
      [] c = "=" -> 61 [] c = "+" -> 43 [] c = "-" -> 45 [] c = " " -> 32

\* a ^ b and a | b on non-negative integers.
RECURSIVE BitXor(_, _)
BitXor(a, b) ==
    IF a = 0 /\ b = 0 THEN 0
    ELSE (((a % 2) + (b % 2)) % 2) + 2 * BitXor(a \div 2, b \div 2)

RECURSIVE BitOr(_, _)
BitOr(a, b) ==
    IF a = 0 /\ b = 0 THEN 0
    ELSE (IF (a % 2) = 1 \/ (b % 2) = 1 THEN 1 ELSE 0) + 2 * BitOr(a \div 2, b \div 2)

RECURSIVE Pow(_, _)
Pow(b, n) == IF n = 0 THEN 1 ELSE b * Pow(b, n - 1)

\* All sequences over S of length lo..hi.
SeqsOf(S, lo, hi) == UNION {[1..n -> S] : n \in lo..hi}

(***************************************************************************)
(* webhook-security.ts                                                     *)
(***************************************************************************)
\* Bytes of a digest in the model (SHA-256 has 32).
DigestLen == 2
\* Longest request body enumerated for the signature check.
MaxBodyLen == 2

Secrets == {<<"s">>, <<"z">>}
BodyChars == {"x", "y"}
Bodies == SeqsOf(BodyChars, 1, MaxBodyLen)

SecretIndex(secret) == IF secret = <<"s">> THEN 0 ELSE 1

\* A request body as a number: injective on Bodies.
RECURSIVE BodyCode(_)
BodyCode(body) ==
    IF body = <<>> THEN 0
    ELSE (IF Head(body) = "x" THEN 1 ELSE 2) + 3 * BodyCode(Tail(body))

\* createHmac('sha256', secret).update(body).digest(): the keyed hash as DigestLen
\* bytes. The model's hash is a bijective scramble of (secret, body), so it has no
\* collisions on the enumerated inputs, as HMAC-SHA256 has none in practice.
hmacDigest(secret, body) ==
    LET v == ((SecretIndex(secret) + 2 * BodyCode(body)) * 2731 + 43981) % Pow(256, DigestLen)
    IN  [i \in 1..DigestLen |-> (v \div Pow(256, DigestLen - i)) % 256]

\* .digest('hex'): two lower-case hexadecimal digits per byte.
RECURSIVE hexEncode(_)
hexEncode(bytes) ==
    IF bytes = <<>> THEN <<>>
    ELSE <<HexDigitSeq[(Head(bytes) \div 16) + 1], HexDigitSeq[((Head(bytes)) % 16) + 1]>>
         \o hexEncode(Tail(bytes))

\* The value of a hexadecimal digit of either case, -1 for any other character.
unhex(c) ==
    IF c \in Digits THEN charCodeAt(c) - 48
    ELSE IF c \in LowerHex THEN charCodeAt(c) - 97 + 10
    ELSE IF c \in UpperHex THEN charCodeAt(c) - 65 + 10
    ELSE -1

\* Buffer.from(str, 'hex'): decodes pairs of hexadecimal digits, stops at the first
\* pair that is not two hexadecimal digits, and ignores a trailing single character.
RECURSIVE bufferFromHex(_)
bufferFromHex(str) ==
    IF Len(str) < 2 THEN <<>>
    ELSE IF unhex(str[1]) < 0 \/ unhex(str[2]) < 0 THEN <<>>
    ELSE <<16 * unhex(str[1]) + unhex(str[2])>> \o bufferFromHex(SubSeq(str, 3, Len(str)))

\* The loop of timingSafeEqual: result |= a[i] ^ b[i].
RECURSIVE xorAccumulate(_, _)
xorAccumulate(a, b) ==
    IF a = <<>> THEN 0
    ELSE BitOr(BitXor(Head(a), Head(b)), xorAccumulate(Tail(a), Tail(b)))

timingSafeEqual(a, b) ==
    IF Len(a) # Len(b) THEN FALSE
    ELSE xorAccumulate(a, b) = 0

Sha256Prefix == <<"s", "h", "a", "2", "5", "6", "=">>

startsWith(str, prefix) ==
    /\ Len(str) >= Len(prefix)
    /\ SubSeq(str, 1, Len(prefix)) = prefix

\* str.substring(n)
substring(str, n) == SubSeq(str, n + 1, Len(str))

validateMetaWhatsAppSignature(appSecret, signature, body) ==
    IF signature = Null \/ signature = <<>> THEN FALSE
    ELSE IF ~startsWith(signature, Sha256Prefix) THEN FALSE
    ELSE LET receivedSignature == substring(signature, 7)
             expectedSignature == hexEncode(hmacDigest(appSecret, body))
         IN  timingSafeEqual(bufferFromHex(receivedSignature),
                             bufferFromHex(expectedSignature))

\* The loop of verifyWebhookToken: result |= expected.charCodeAt(i) ^ received.charCodeAt(i).
RECURSIVE xorAccumulateChars(_, _)
xorAccumulateChars(a, b) ==
    IF a = <<>> THEN 0
    ELSE BitOr(BitXor(charCodeAt(Head(a)), charCodeAt(Head(b))),
               xorAccumulateChars(Tail(a), Tail(b)))

verifyWebhookTokenLengthOnly(expectedToken, receivedToken) ==
    IF receivedToken = Null \/ receivedToken = <<>> THEN FALSE
    ELSE Len(expectedToken) = Len(receivedToken)

verifyWebhookToken(expectedToken, receivedToken) ==
    IF receivedToken = Null \/ receivedToken = <<>> THEN FALSE
    ELSE IF Len(expectedToken) # Len(receivedToken) THEN FALSE
    ELSE xorAccumulateChars(expectedToken, receivedToken) = 0

\* The header Meta sends for a body: sha256=<hex(HMAC_SHA256(secret, body))>.
SignatureHeader(secret, body) == Sha256Prefix \o hexEncode(hmacDigest(secret, body))

(***************************************************************************)
(* index.ts and message-manager.ts: the server                             *)
(***************************************************************************)
\* send_message calls and webhook deliveries a run may hold.
MaxCalls == 2
MaxDeliveries == 2

\* The configured operator number (config.userPhoneNumber), in two formats.
OperatorNumbers == {<<"+", "1", "5">>, <<"1", "5">>}
\* The message of a send_message call.
OutTexts == {"q"}

AppSecret == <<"s">>
WebhookBody == <<"x", "y">>
ProviderTag == "whatsapp_business_account"

\* phone.replace(/[^0-9]/g, '')
normalizePhoneNumberFirstOnly(phone) ==
    LET nonDigits == {i \in 1..Len(phone) : phone[i] \notin Digits}
    IN  IF nonDigits = {} THEN phone
        ELSE LET i == CHOOSE k \in nonDigits : \A m \in nonDigits : k <= m
             IN  SubSeq(phone, 1, i - 1) \o SubSeq(phone, i + 1, Len(phone))

normalizePhoneNumber(phone) == SelectSeq(phone, LAMBDA c : c \in Digits)

\* ---- the Conversation Registry (MessageManager) ----
\* The MessageManager's maps and the provider's call counts, as one value that the
\* handlers' steps transform.
MM == [convs |-> activeConversations, p2c |-> phoneToConversationId,
       cur |-> currentConversationId, gw |-> gateway]

\* The conversation id `conv-${n}-${Date.now()}` is modelled by its number n. The
\* Map activeConversations is the sequence of its values in insertion order; the
\* n-th minted id is the n-th key inserted, so that id n is looked up at position n.
getOrCreateConversationAlwaysNew(mm, phoneNumber) ==
    LET id == mm.cur + 1
        state == [conversationId |-> id, userPhoneNumber |-> phoneNumber,
                  messageHistory |-> <<>>, active |-> TRUE]
    IN  [id |-> id,
         mm |-> [mm EXCEPT !.cur = id,
                           !.convs = Append(mm.convs, state),
                           !.p2c = [p \in DOMAIN mm.p2c \cup {phoneNumber} |->
                                      IF p = phoneNumber THEN id ELSE mm.p2c[p]]]]

getOrCreateConversationNormalized(mm, phoneNumber) ==
    LET key == normalizePhoneNumber(phoneNumber)
    IN  IF /\ key \in DOMAIN mm.p2c
           /\ mm.p2c[key] \in 1..Len(mm.convs)
           /\ mm.convs[mm.p2c[key]].active
        THEN [id |-> mm.p2c[key], mm |-> mm]
        ELSE LET id == mm.cur + 1
                 state == [conversationId |-> id, userPhoneNumber |-> phoneNumber,
                           messageHistory |-> <<>>, active |-> TRUE]
             IN  [id |-> id,
                  mm |-> [mm EXCEPT !.cur = id,
                                    !.convs = Append(mm.convs, state),
                                    !.p2c = [p \in DOMAIN mm.p2c \cup {key} |->
                                               IF p = key THEN id ELSE mm.p2c[p]]]]

getOrCreateConversation(mm, phoneNumber) ==
    IF /\ phoneNumber \in DOMAIN mm.p2c
       /\ mm.p2c[phoneNumber] \in 1..Len(mm.convs)
       /\ mm.convs[mm.p2c[phoneNumber]].active
    THEN [id |-> mm.p2c[phoneNumber], mm |-> mm]
    ELSE LET id == mm.cur + 1
             state == [conversationId |-> id, userPhoneNumber |-> phoneNumber,
                       messageHistory |-> <<>>, active |-> TRUE]
         IN  [id |-> id,
              mm |-> [mm EXCEPT !.cur = id,
                                !.convs = Append(mm.convs, state),
                                !.p2c = [p \in DOMAIN mm.p2c \cup {phoneNumber} |->
                                           IF p = phoneNumber THEN id ELSE mm.p2c[p]]]]

\* state.messageHistory.push({role, text, timestamp}); timestamps are not modelled.
pushMessageLost(mm, id, role, text) == mm

pushMessageAsClaude(mm, id, role, text) ==
    [mm EXCEPT !.convs[id].messageHistory = Append(@, [role |-> "claude", text |-> text])]

pushMessage(mm, id, role, text) ==
    [mm EXCEPT !.convs[id].messageHistory = Append(@, [role |-> role, text |-> text])]

\* ---- the Pending-Reply Table (index.ts) ----
mapSet(map, key, value) ==
    [k \in DOMAIN map \cup {key} |-> IF k = key THEN value ELSE map[k]]

mapDelete(map, key) == [k \in DOMAIN map \ {key} |-> map[k]]

\* setTimeout(..., timeoutMs) and the new pending promise of a waiting call.
armTimerNever(call) == [call EXCEPT !.pc = "waiting", !.promise = "pending"]

armTimer(call) == [call EXCEPT !.pc = "waiting", !.timer = "armed", !.promise = "pending"]

\* What send_message returns once the awaited promise settled: the reply result
\* after the await, the no-reply result from the catch around it. Both carry
\* success: true; "error" is the isError result of the outer catch.
replyResultThrows(promise) == IF promise = "fulfilled" THEN "replied" ELSE "error"

replyResult(promise) == IF promise = "fulfilled" THEN "replied" ELSE "noreply"

\* A promise's resolve(text): settles it if it is still pending.
promiseResolve(call, text) ==
    IF call.promise = "pending"
    THEN [call EXCEPT !.promise = "fulfilled", !.value = text,
                      !.result = replyResult("fulfilled"), !.settleCalls = @ + 1]
    ELSE [call EXCEPT !.settleCalls = @ + 1]

\* A promise's reject(new Error('Timeout waiting for user reply')).
promiseReject(call) ==
    IF call.promise = "pending"
    THEN [call EXCEPT !.promise = "rejected", !.result = replyResult("rejected"),
                      !.settleCalls = @ + 1]
    ELSE [call EXCEPT !.settleCalls = @ + 1]

\* The key the callback looks up: normalizePhoneNumber(from).
normalizedFromRaw(from) == from

normalizedFromAnyone(from) == normalizePhoneNumber(userPhoneNumber)

normalizedFrom(from) == normalizePhoneNumber(from)

\* The key send_message registers under: normalizePhoneNumber(config.userPhoneNumber).
normalizedUserPhone == normalizePhoneNumber(userPhoneNumber)

\* The onMessageReceived callback: [pending, calls] after it ran on (from, text).
onMessageReceivedNoDelete(pending, cs, from, text) ==
    LET key == normalizedFrom(from)
    IN  IF key \in DOMAIN pending
        THEN LET c == pending[key]
             IN  [pending |-> pending,
                  calls |-> [cs EXCEPT ![c] = promiseResolve([@ EXCEPT !.timer = "cleared"],
                                                             text)]]
        ELSE [pending |-> pending, calls |-> cs]

onMessageReceivedKeepTimer(pending, cs, from, text) ==
    LET key == normalizedFrom(from)
    IN  IF key \in DOMAIN pending
        THEN LET c == pending[key]
             IN  [pending |-> mapDelete(pending, key),
                  calls |-> [cs EXCEPT ![c] = promiseResolve(@, text)]]
        ELSE [pending |-> pending, calls |-> cs]

onMessageReceived(pending, cs, from, text) ==
    LET key == normalizedFrom(from)
    IN  IF key \in DOMAIN pending
        THEN LET c == pending[key]
             IN  [pending |-> mapDelete(pending, key),
                  calls |-> [cs EXCEPT ![c] = promiseResolve([@ EXCEPT !.timer = "cleared"],
                                                             text)]]
        ELSE [pending |-> pending, calls |-> cs]

\* pendingResponses.set(normalizedUserPhone, ...) of send_message.
registerWaitKeepFirst(pending, c) ==
    IF normalizedUserPhone \in DOMAIN pending THEN pending
    ELSE mapSet(pending, normalizedUserPhone, c)

registerWait(pending, c) == mapSet(pending, normalizedUserPhone, c)

\* pendingResponses.delete(normalizedUserPhone) of the setTimeout callback.
timeoutFiresKeepsEntry(pending) == pending

timeoutFires(pending) == mapDelete(pending, normalizedUserPhone)

\* ---- webhook events ----
\* The text handleIncomingMessage extracts from a message, "" if its kind is unsupported.
extractText(message) ==
    IF message.type = "text" /\ message.body # "" THEN message.body
    ELSE IF message.type = "button" /\ message.body # "" THEN message.body
    ELSE ""

\* The parts of a delivery's changes, flattened in processing order: a message
\* (type text, button, image), a status update, or a change without a value. The
\* senders are "15", "+15" (the same number in another format) and "16"; a body of
\* "" is an absent or empty text.
Msg(type, from, body) == [type |-> type, from |-> from, body |-> body]
TextHi == Msg("text", <<"1", "5">>, "hi")
TextOk == Msg("text", <<"+", "1", "5">>, "ok")
TextOther == Msg("text", <<"1", "6">>, "hi")
ButtonOk == Msg("button", <<"1", "5">>, "ok")
Image == Msg("image", <<"1", "5">>, "")
Status == Msg("status", <<>>, "")
NoValue == Msg("novalue", <<>>, "")

Unparsed == [parses |-> FALSE, isNull |-> FALSE, object |-> "", items |-> <<>>]
Event(object, items) ==
    [parses |-> TRUE, isNull |-> FALSE, object |-> object, items |-> items]
\* The body "null": JSON.parse succeeds and returns null, a value without properties.
JsonNull == [parses |-> TRUE, isNull |-> TRUE, object |-> "", items |-> <<>>]

\* The bodies a delivery can carry, as JSON.parse reads them.
Events ==
    {Unparsed, JsonNull, Event("page", <<TextHi>>)}
    \cup {Event(ProviderTag, <<m>>) :
            m \in {TextHi, TextOk, TextOther, ButtonOk, Image, Status, NoValue}}
    \cup {Event(ProviderTag, <<TextHi, m>>) : m \in {TextOk, NoValue}}
    \cup {Event(ProviderTag, <<Image, TextOk>>)}

\* What the request carries as x-hub-signature-256.
Signatures == {Null, SignatureHeader(AppSecret, WebhookBody),
               SignatureHeader(<<"z">>, WebhookBody)}

\* The first part at or after position i that is not passed over synchronously: a
\* status update and a message of an unsupported kind are.
RECURSIVE nextStopNoSkip(_, _)
nextStopNoSkip(items, i) ==
    IF i > Len(items) THEN i
    ELSE IF items[i].type = "status" THEN nextStopNoSkip(items, i + 1)
    ELSE i

RECURSIVE nextStopAtStatus(_, _)
nextStopAtStatus(items, i) ==
    IF i > Len(items) THEN i
    ELSE IF items[i].type \in {"text", "button", "image"} /\ extractText(items[i]) = ""
         THEN nextStopAtStatus(items, i + 1)
    ELSE i

RECURSIVE nextStop(_, _)
nextStop(items, i) ==
    IF i > Len(items) THEN i
    ELSE IF items[i].type = "status" THEN nextStop(items, i + 1)
    ELSE IF items[i].type \in {"text", "button", "image"} /\ extractText(items[i]) = ""
         THEN nextStop(items, i + 1)
    ELSE i

\* processWhatsAppEvent from part i up to the next suspension (the await of
\* markAsRead), the end of the event (200) or an exception (400).
processFrom(mm, d, i) ==
    LET items == d.event.items
        j == nextStop(items, i)
    IN  IF j > Len(items)
        THEN [d |-> [d EXCEPT !.pc = "done", !.response = 200], mm |-> mm]
        ELSE IF items[j].type = "novalue"
        THEN [d |-> [d EXCEPT !.pc = "done", !.response = 400], mm |-> mm]
        ELSE LET g == getOrCreateConversation(mm, items[j].from)
             IN  [d |-> [d EXCEPT !.pc = "markAsRead", !.idx = j, !.conv = g.id],
                  mm |-> [g.mm EXCEPT !.gw.markAsRead = @ + 1]]

\* processWhatsAppEvent up to its first suspension: reading event.object of null
\* throws a TypeError that the handler's catch answers with 400; an event with
\* another tag, or none, is ignored.
processWhatsAppEvent(mm, d) ==
    IF d.event.isNull THEN [d |-> [d EXCEPT !.response = 400], mm |-> mm]
    ELSE IF d.event.object # ProviderTag THEN [d |-> [d EXCEPT !.response = 200], mm |-> mm]
    ELSE processFrom(mm, d, 1)

\* The 'end' handler of a POST /webhook up to its first suspension.
handleWhatsAppWebhookNoCheck(mm, signature, body, event) ==
    LET valid == validateMetaWhatsAppSignature(AppSecret, signature, body)
        d == [valid |-> valid, event |-> event, pc |-> "done", idx |-> 0, conv |-> 0,
              response |-> 0]
    IN  IF ~event.parses THEN [d |-> [d EXCEPT !.response = 400], mm |-> mm]
        ELSE processWhatsAppEvent(mm, d)

handleWhatsAppWebhookParseLax(mm, signature, body, event) ==
    LET valid == validateMetaWhatsAppSignature(AppSecret, signature, body)
        d == [valid |-> valid, event |-> event, pc |-> "done", idx |-> 0, conv |-> 0,
              response |-> 0]
    IN  IF ~valid THEN [d |-> [d EXCEPT !.response = 401, !.event = Unparsed], mm |-> mm]
        ELSE IF ~event.parses THEN [d |-> [d EXCEPT !.response = 200], mm |-> mm]
        ELSE processWhatsAppEvent(mm, d)

handleWhatsAppWebhook(mm, signature, body, event) ==
    LET valid == validateMetaWhatsAppSignature(AppSecret, signature, body)
        d == [valid |-> valid, event |-> event, pc |-> "done", idx |-> 0, conv |-> 0,
              response |-> 0]
    IN  IF ~valid THEN [d |-> [d EXCEPT !.response = 401, !.event = Unparsed], mm |-> mm]
        ELSE IF ~event.parses THEN [d |-> [d EXCEPT !.response = 400], mm |-> mm]
        ELSE processWhatsAppEvent(mm, d)

setMM(mm) ==
    /\ activeConversations' = mm.convs
    /\ phoneToConversationId' = mm.p2c
    /\ currentConversationId' = mm.cur
    /\ gateway' = mm.gw

\* ---- the steps ----
ServerInit ==
    /\ userPhoneNumber \in OperatorNumbers
    /\ pendingResponses = <<>>
    /\ calls = <<>>
    /\ regOrder = <<>>
    /\ activeConversations = <<>>
    /\ phoneToConversationId = <<>>
    /\ currentConversationId = 0
    /\ deliveries = <<>>
    /\ received = <<>>
    /\ gateway = [sendMessage |-> 0, markAsRead |-> 0]

NewCall(message, wait) ==
    [message |-> message, wait |-> wait, pc |-> "sending", conv |-> 0, result |-> "none",
     timer |-> "none", promise |-> "none", value |-> "", settleCalls |-> 0]

\* A send_message tool call with a non-empty message, up to the await of the provider's sendMessage.
CallSendMessage(message, wait) ==
    /\ Len(calls) < MaxCalls
    /\ LET g == getOrCreateConversation(MM, userPhoneNumber)
       IN  /\ calls' = Append(calls, [NewCall(message, wait) EXCEPT !.conv = g.id])
           /\ setMM([g.mm EXCEPT !.gw.sendMessage = @ + 1])
    /\ UNCHANGED <<userPhoneNumber, pendingResponses, regOrder, deliveries, received, auxVars>>

\* The provider's sendMessage returned a message id.
SendSucceeds(c) ==
    /\ c \in 1..Len(calls)
    /\ calls[c].pc = "sending"
    /\ setMM(pushMessage(MM, calls[c].conv, "claude", calls[c].message))
    /\ IF calls[c].wait
       THEN /\ calls' = [calls EXCEPT ![c] = armTimer(@)]
            /\ pendingResponses' = registerWait(pendingResponses, c)
            /\ regOrder' = Append(regOrder, c)
       ELSE /\ calls' = [calls EXCEPT ![c].pc = "done", ![c].result = "sent"]
            /\ UNCHANGED <<pendingResponses, regOrder>>
    /\ UNCHANGED <<userPhoneNumber, deliveries, received, auxVars>>

\* The provider's sendMessage threw.
SendFailsAfterPush(c) ==
    /\ c \in 1..Len(calls)
    /\ calls[c].pc = "sending"
    /\ calls' = [calls EXCEPT ![c].pc = "done", ![c].result = "error"]
    /\ setMM(pushMessage(MM, calls[c].conv, "claude", calls[c].message))
    /\ UNCHANGED <<userPhoneNumber, pendingResponses, regOrder, deliveries, received,
                   auxVars>>

SendFails(c) ==
    /\ c \in 1..Len(calls)
    /\ calls[c].pc = "sending"
    /\ calls' = [calls EXCEPT ![c].pc = "done", ![c].result = "error"]
    /\ UNCHANGED <<userPhoneNumber, pendingResponses, regOrder, activeConversations,
                   phoneToConversationId, currentConversationId, deliveries, received,
                   gateway, auxVars>>

\* The timer of call c fires.
TimerFires(c) ==
    /\ c \in 1..Len(calls)
    /\ calls[c].timer = "armed"
    /\ pendingResponses' = timeoutFires(pendingResponses)
    /\ calls' = [calls EXCEPT ![c] = [promiseReject([@ EXCEPT !.timer = "fired"])
                                        EXCEPT !.pc = "done"]]
    /\ UNCHANGED <<userPhoneNumber, regOrder, activeConversations, phoneToConversationId,
                   currentConversationId, deliveries, received, gateway, auxVars>>

\* The body of a POST /webhook is complete.
ReceiveWebhook(signature, event) ==
    /\ Len(deliveries) < MaxDeliveries
    /\ LET r == handleWhatsAppWebhook(MM, signature, WebhookBody, event)
       IN  /\ deliveries' = Append(deliveries, r.d)
           /\ received' = Append(received, pendingResponses)
           /\ setMM(r.mm)
    /\ UNCHANGED <<userPhoneNumber, pendingResponses, calls, regOrder, auxVars>>

\* markAsRead of delivery d's current message returned (ok) or threw (~ok): the
\* rest of handleIncomingMessage runs, then the event's next parts.
MarkAsReadReturns(d, ok) ==
    /\ d \in 1..Len(deliveries)
    /\ deliveries[d].pc = "markAsRead"
    /\ LET message == deliveries[d].event.items[deliveries[d].idx]
           text == extractText(message)
           mm1 == pushMessage(MM, deliveries[d].conv, "user", text)
           cb == onMessageReceived(pendingResponses, calls, message.from, text)
           r == processFrom(mm1, deliveries[d], deliveries[d].idx + 1)
       IN  /\ pendingResponses' = cb.pending
           /\ calls' = [c \in 1..Len(calls) |->
                          IF cb.calls[c].promise = "fulfilled" /\ calls[c].promise = "pending"
                          THEN [cb.calls[c] EXCEPT !.pc = "done"] ELSE cb.calls[c]]
           /\ deliveries' = [deliveries EXCEPT ![d] = r.d]
           /\ setMM(r.mm)
    /\ UNCHANGED <<userPhoneNumber, regOrder, received, auxVars>>

ServerNext ==
    \/ \E message \in OutTexts, wait \in BOOLEAN : CallSendMessage(message, wait)
    \/ \E c \in 1..MaxCalls : SendSucceeds(c)
    \/ \E c \in 1..MaxCalls : SendFails(c)
    \/ \E c \in 1..MaxCalls : TimerFires(c)
    \/ \E signature \in Signatures, event \in Events : ReceiveWebhook(signature, event)
    \/ \E d \in 1..MaxDeliveries, ok \in BOOLEAN : MarkAsReadReturns(d, ok)

(***************************************************************************)
(* validateMetaWhatsAppSignature as a function: a correctly signed request *)
(* is drawn, possibly altered in one place, and verified.                  *)
(***************************************************************************)
\* The characters a header byte can be changed to.
HeaderChars == Digits \cup LowerHex \cup UpperHex \cup {"g", "s", "h", "="}

SigIdle == [secret |-> <<>>, body |-> <<>>, signature |-> Null, edit |-> "idle"]
SigNoResult == [done |-> FALSE, valid |-> FALSE]

SigInit ==
    /\ \E secret \in Secrets, body \in Bodies :
          sigIn = [secret |-> secret, body |-> body,
                   signature |-> SignatureHeader(secret, body), edit |-> "none"]
    /\ sigOut = SigNoResult

SigEditable == sigIn.edit = "none" /\ ~sigOut.done

\* One byte of the header becomes another byte.
ChangeHeaderByte(i, c) ==
    /\ SigEditable
    /\ i \in 1..Len(sigIn.signature)
    /\ c # sigIn.signature[i]
    /\ sigIn' = [sigIn EXCEPT !.signature[i] = c, !.edit = "headerByte"]
    /\ UNCHANGED <<sigOut, serverVars, getVars, histVars, normVars, cfgVars, hookVars>>

\* One byte of the body becomes another byte; the header stays the original's.
ChangeBodyByte(i, c) ==
    /\ SigEditable
    /\ i \in 1..Len(sigIn.body)
    /\ c # sigIn.body[i]
    /\ sigIn' = [sigIn EXCEPT !.body[i] = c, !.edit = "bodyByte"]
    /\ UNCHANGED <<sigOut, serverVars, getVars, histVars, normVars, cfgVars, hookVars>>

\* The request carries no x-hub-signature-256 header, or an empty one.
OmitHeader(empty) ==
    /\ SigEditable
    /\ sigIn' = [sigIn EXCEPT !.signature = IF empty THEN <<>> ELSE Null,
                              !.edit = "missing"]
    /\ UNCHANGED <<sigOut, serverVars, getVars, histVars, normVars, cfgVars, hookVars>>

\* The header carries the digest without (n = 7) or with a shortened algorithm prefix.
StripPrefix(n) ==
    /\ SigEditable
    /\ sigIn' = [sigIn EXCEPT !.signature = substring(sigIn.signature, n),
                              !.edit = "prefix"]
    /\ UNCHANGED <<sigOut, serverVars, getVars, histVars, normVars, cfgVars, hookVars>>

\* The header carries extra characters after the digest.
AppendToHeader(extra) ==
    /\ SigEditable
    /\ sigIn' = [sigIn EXCEPT !.signature = sigIn.signature \o extra, !.edit = "longer"]
    /\ UNCHANGED <<sigOut, serverVars, getVars, histVars, normVars, cfgVars, hookVars>>

\* The header carries a shortened digest.
TruncateHeader(n) ==
    /\ SigEditable
    /\ sigIn' = [sigIn EXCEPT
                   !.signature = SubSeq(sigIn.signature, 1, Len(sigIn.signature) - n),
                   !.edit = "shorter"]
    /\ UNCHANGED <<sigOut, serverVars, getVars, histVars, normVars, cfgVars, hookVars>>

Verify ==
    /\ ~sigOut.done
    /\ sigOut' = [done |-> TRUE,
                  valid |-> validateMetaWhatsAppSignature(sigIn.secret, sigIn.signature,
                                                          sigIn.body)]
    /\ UNCHANGED <<sigIn, serverVars, getVars, histVars, normVars, cfgVars, hookVars>>

SigNext ==
    \/ \E i \in 1..(Len(Sha256Prefix) + 2 * DigestLen), c \in HeaderChars : ChangeHeaderByte(i, c)
    \/ \E i \in 1..MaxBodyLen, c \in BodyChars : ChangeBodyByte(i, c)
    \/ \E empty \in BOOLEAN : OmitHeader(empty)
    \/ \E n \in 1..Len(Sha256Prefix) : StripPrefix(n)
    \/ \E extra \in SeqsOf(HeaderChars, 1, 2) : AppendToHeader(extra)
    \/ \E n \in 1..(2 * DigestLen) : TruncateHeader(n)
    \/ Verify

(***************************************************************************)
(* GET /webhook: handleWebhookVerification                                 *)
(***************************************************************************)
\* Longest verification token enumerated.
MaxTokenLen == 2

TokenChars == {"a", "b"}
\* The configured token is never empty: loadServerConfig refuses to start without it.
ConfiguredTokens == SeqsOf(TokenChars, 1, MaxTokenLen)
\* hub.verify_token: absent, empty or any token.
ReceivedTokens == {Null} \cup SeqsOf(TokenChars, 0, MaxTokenLen)
\* hub.mode and hub.challenge are compared or echoed whole: each is kept as one
\* opaque element.
Subscribe == <<"subscribe">>
Modes == {Null, Subscribe, <<"unsubscribe">>}
Challenges == {Null, <<"1158201444">>, <<"42">>}

GetIdle == [expected |-> <<>>, mode |-> Null, token |-> Null, challenge |-> Null]
GetNoResult == [status |-> 0, body |-> Null]

\* The response of handleWebhookVerification; res.end(null) sends no body.
handleWebhookVerification(expected, mode, token, challenge) ==
    IF mode = Subscribe /\ verifyWebhookToken(expected, IF token = Null THEN <<>> ELSE token)
    THEN [status |-> 200, body |-> challenge]
    ELSE [status |-> 403, body |-> <<"Forbidden">>]

GetInit ==
    /\ \E expected \in ConfiguredTokens : getIn = [GetIdle EXCEPT !.expected = expected]
    /\ getOut = GetNoResult

GetWebhook(mode, token, challenge) ==
    /\ getOut.status = 0
    /\ getIn' = [getIn EXCEPT !.mode = mode, !.token = token, !.challenge = challenge]
    /\ getOut' = handleWebhookVerification(getIn.expected, mode, token, challenge)
    /\ UNCHANGED <<serverVars, sigVars, histVars, normVars, cfgVars, hookVars>>

(***************************************************************************)
(* The get_conversation_history tool                                       *)
(***************************************************************************)
\* Largest limit a request carries.
MaxLimit == 5
\* `args.limit as number || 20`
DefaultLimit == 20

Min(a, b) == IF a < b THEN a ELSE b
Max(a, b) == IF a > b THEN a ELSE b

\* Array.prototype.slice(start): a negative start counts from the end, and -0 is 0.
slice(array, start) ==
    LET n == Len(array)
        from == IF start < 0 THEN Max(n + start, 0) ELSE Min(start, n)
    IN  SubSeq(array, from + 1, n)

\* state?.messageHistory || []
getConversationHistory(mm, conversationId) ==
    IF conversationId \in 1..Len(mm.convs) THEN mm.convs[conversationId].messageHistory
    ELSE <<>>

\* Array.from(this.activeConversations.keys()): the ids in insertion order.
getActiveConversationsReversed(mm) ==
    [i \in 1..Len(mm.convs) |-> mm.convs[Len(mm.convs) + 1 - i].conversationId]

getActiveConversations(mm) == [i \in 1..Len(mm.convs) |-> mm.convs[i].conversationId]

HistNoResult == [done |-> FALSE, limit |-> 0, conversationId |-> 0, messages |-> <<>>]

\* The result of the tool call; conversationId 0 stands for 'No active conversations'.
get_conversation_history(mm, limitArg) ==
    LET limit == IF limitArg = 0 THEN DefaultLimit ELSE limitArg
        conversations == getActiveConversations(mm)
    IN  IF Len(conversations) = 0
        THEN [done |-> TRUE, limit |-> limitArg, conversationId |-> 0, messages |-> <<>>]
        ELSE LET conversationId == conversations[Len(conversations)]
                 history == getConversationHistory(mm, conversationId)
             IN  [done |-> TRUE, limit |-> limitArg, conversationId |-> conversationId,
                  messages |-> slice(history, 0 - limit)]

\* A get_conversation_history tool call: it reads the registry and changes nothing.
GetConversationHistory(limit) ==
    /\ ~histOut.done
    /\ histOut' = get_conversation_history(MM, limit)
    /\ UNCHANGED <<serverVars, sigVars, getVars, normVars, cfgVars, hookVars>>

\* The deliveries of the runs in which the tool is called: one text message each.
HistEvents == {Event(ProviderTag, <<m>>) : m \in {TextHi, TextOk, TextOther}}

(***************************************************************************)
(* normalizePhoneNumber as a function                                      *)
(***************************************************************************)
\* Longest phone string enumerated.
MaxPhoneLen == 3
PhoneChars == {"+", "1", "5", "-", " "}
PhoneStrings == SeqsOf(PhoneChars, 0, MaxPhoneLen)

NormNoResult == [done |-> FALSE, key |-> <<>>]

NormInit ==
    /\ normIn \in PhoneStrings
    /\ normOut = NormNoResult

Normalize ==
    /\ ~normOut.done
    /\ normOut' = [done |-> TRUE, key |-> normalizePhoneNumber(normIn)]
    /\ UNCHANGED <<normIn, serverVars, sigVars, getVars, histVars, cfgVars, hookVars>>

(***************************************************************************)
(* Startup: main(), loadServerConfig, validateProviderConfig                *)
(***************************************************************************)
\* The configuration values, by the environment variable that carries each.
ProviderConfigNames ==
    <<"WHATSAPPME_PHONE_NUMBER_ID", "WHATSAPPME_ACCESS_TOKEN", "WHATSAPPME_APP_SECRET",
      "WHATSAPPME_VERIFY_TOKEN", "WHATSAPPME_USER_PHONE_NUMBER">>
PortName == "WHATSAPPME_PORT"
PublicUrlName == "WHATSAPPME_PUBLIC_URL"
ConfigNames ==
    {ProviderConfigNames[i] : i \in 1..Len(ProviderConfigNames)}
    \cup {PortName, PublicUrlName}

\* The environment: the names whose variable is set to a non-empty value.
CfgIdle == [present |-> {}, drawn |-> FALSE]
CfgNoResult == [done |-> FALSE, started |-> FALSE, report |-> <<>>, port |-> "", url |-> ""]

\* process.env.X || '': "" for a variable that is unset or empty.
loadProviderConfig(present) ==
    [i \in 1..Len(ProviderConfigNames) |->
       IF ProviderConfigNames[i] \in present THEN "set" ELSE ""]

\* The errors, one per empty value, in the order of the checks.
RECURSIVE errorsFrom(_, _)
errorsFrom(config, i) ==
    IF i > Len(config) THEN <<>>
    ELSE (IF config[i] = "" THEN <<ProviderConfigNames[i]>> ELSE <<>>)
         \o errorsFrom(config, i + 1)

validateProviderConfig(config) == errorsFrom(config, 1)

\* loadServerConfig: throws with every error joined into one message, or returns
\* the configuration; the port falls back to 3333.
loadServerConfig(present, publicUrl) ==
    LET errors == validateProviderConfig(loadProviderConfig(present))
    IN  IF Len(errors) > 0
        THEN [CfgNoResult EXCEPT !.done = TRUE, !.report = errors]
        ELSE [done |-> TRUE, started |-> TRUE, report |-> <<>>,
              port |-> IF PortName \in present THEN "env" ELSE "3333",
              url |-> publicUrl]

\* main() up to `new MessageManager`: the public URL is the configured one or the
\* one startNgrok returns (tunnel); a failing tunnel ends the process with a
\* report that names no configuration value.
main(present, tunnel) ==
    IF PublicUrlName \in present THEN loadServerConfig(present, "env")
    ELSE IF tunnel THEN loadServerConfig(present, "ngrok")
    ELSE [CfgNoResult EXCEPT !.done = TRUE]

CfgInit ==
    /\ cfgIn \in [present : SUBSET ConfigNames, drawn : {TRUE}]
    /\ cfgOut = CfgNoResult

\* The process starts; tunnel is whether startNgrok succeeds if it is called.
Start(tunnel) ==
    /\ cfgIn.drawn
    /\ ~cfgOut.done
    /\ cfgOut' = main(cfgIn.present, tunnel)
    /\ UNCHANGED <<cfgIn, serverVars, sigVars, getVars, histVars, normVars, hookVars>>

(***************************************************************************)
(* The stop hook script                                                    *)
(***************************************************************************)
\* Stop attempts in a row that a run holds.
MaxHookRuns == 3

\* What stdin carries: JSON text, text that ConvertFrom-Json rejects, or nothing.
HookInputKinds == {"json", "invalid", "empty"}
\* The value of stop_hook_active in a JSON input: the JSON values true and false,
\* no such property, the JSON strings "true" and "no", the numbers 1 and 0.
HookActiveValues == {"true", "false", "absent", "'true'", "'no'", "1", "0"}

\* `$stopHookActive -eq $true`: the right operand is converted to the type of the
\* left one ("True", 1), strings compare without case; $null equals nothing.
psEqTrue(value) == value \in {"true", "'true'", "1"}

\* The script from its try block on: what it writes and its exit status.
stopHookIgnoresFlag(parsed, active) ==
    IF ~parsed THEN [decision |-> "allow", exit |-> 0]
    ELSE [decision |-> "block", exit |-> 0]

stopHook(parsed, active) ==
    IF ~parsed THEN [decision |-> "allow", exit |-> 0]
    ELSE IF psEqTrue(active) THEN [decision |-> "allow", exit |-> 0]
    ELSE [decision |-> "block", exit |-> 0]

\* One stop attempt: the script runs on the input. After a blocked stop the host
\* passes stop_hook_active = true; an empty input is rejected by ConvertFrom-Json
\* or read as $null, depending on the PowerShell version.
RunStopHook(kind, active, parsed) ==
    /\ Len(hookRuns) < MaxHookRuns
    /\ kind = "json" => parsed
    /\ kind = "invalid" => ~parsed
    /\ kind # "json" => active = "absent"
    /\ (hookRuns # <<>> /\ hookRuns[Len(hookRuns)].decision = "block")
       => kind = "json" /\ active = "true"
    /\ LET out == stopHook(parsed, active)
       IN  hookRuns' = Append(hookRuns, [kind |-> kind, active |-> active, parsed |-> parsed,
                                         decision |-> out.decision, exit |-> out.exit])
    /\ UNCHANGED <<serverVars, sigVars, getVars, histVars, normVars, cfgVars>>

(***************************************************************************)
(* Specifications                                                          *)
(***************************************************************************)

Init ==
    /\ ServerInit
    /\ sigIn = SigIdle /\ sigOut = SigNoResult
    /\ getIn = GetIdle /\ getOut = GetNoResult
    /\ histOut = HistNoResult
    /\ normIn = <<>> /\ normOut = NormNoResult
    /\ cfgIn = CfgIdle /\ cfgOut = CfgNoResult
    /\ hookRuns = <<>>

Next == ServerNext

Spec == Init /\ [][Next]_vars

\* Armed timers eventually fire (the event loop runs every due timer).
FairSpec == Spec /\ \A c \in 1..MaxCalls : WF_vars(TimerFires(c))

\* validateMetaWhatsAppSignature on its own.
SpecSigInit ==
    /\ ServerInit
    /\ SigInit
    /\ getIn = GetIdle /\ getOut = GetNoResult
    /\ histOut = HistNoResult
    /\ normIn = <<>> /\ normOut = NormNoResult
    /\ cfgIn = CfgIdle /\ cfgOut = CfgNoResult
    /\ hookRuns = <<>>

SpecSigNext == SigNext

SpecSig == SpecSigInit /\ [][SpecSigNext]_vars

\* handleWebhookVerification on its own.
SpecGetInit ==
    /\ ServerInit
    /\ sigIn = SigIdle /\ sigOut = SigNoResult
    /\ GetInit
    /\ histOut = HistNoResult
    /\ normIn = <<>> /\ normOut = NormNoResult
    /\ cfgIn = CfgIdle /\ cfgOut = CfgNoResult
    /\ hookRuns = <<>>

SpecGetNext ==
    \E mode \in Modes, token \in ReceivedTokens, challenge \in Challenges :
        GetWebhook(mode, token, challenge)

SpecGet == SpecGetInit /\ [][SpecGetNext]_vars

\* get_conversation_history, called at any moment of a run of sends without
\* reply-wait and of validly-signed deliveries of one text message.
SpecHistoryNext ==
    \/ \E message \in OutTexts : CallSendMessage(message, FALSE)
    \/ \E c \in 1..MaxCalls : SendSucceeds(c)
    \/ \E event \in HistEvents :
          ReceiveWebhook(SignatureHeader(AppSecret, WebhookBody), event)
    \/ \E d \in 1..MaxDeliveries : MarkAsReadReturns(d, TRUE)
    \/ \E limit \in 0..MaxLimit : GetConversationHistory(limit)

SpecHistory == Init /\ [][SpecHistoryNext]_vars

\* Runs in which every mark-read call of the gateway fails: reply-waits, timeouts and
\* validly-signed deliveries of text messages, one of them with a change without
\* a value after the message.
MarkReadFailsEvents ==
    {Event(ProviderTag, <<TextHi>>), Event(ProviderTag, <<TextHi, TextOk>>),
     Event(ProviderTag, <<TextHi, NoValue>>)}

SpecMarkReadFailsNext ==
    \/ \E message \in OutTexts : CallSendMessage(message, TRUE)
    \/ \E c \in 1..MaxCalls : SendSucceeds(c)
    \/ \E c \in 1..MaxCalls : TimerFires(c)
    \/ \E event \in MarkReadFailsEvents :
          ReceiveWebhook(SignatureHeader(AppSecret, WebhookBody), event)
    \/ \E d \in 1..MaxDeliveries : MarkAsReadReturns(d, FALSE)

SpecMarkReadFails == Init /\ [][SpecMarkReadFailsNext]_vars

\* Startup on its own, for every set of configuration values present.
SpecConfigInit ==
    /\ ServerInit
    /\ sigIn = SigIdle /\ sigOut = SigNoResult
    /\ getIn = GetIdle /\ getOut = GetNoResult
    /\ histOut = HistNoResult
    /\ normIn = <<>> /\ normOut = NormNoResult
    /\ CfgInit
    /\ hookRuns = <<>>

SpecConfigNext == \E tunnel \in BOOLEAN : Start(tunnel)

SpecConfig == SpecConfigInit /\ [][SpecConfigNext]_vars

\* The stop hook on its own.
SpecHookNext ==
    \E kind \in HookInputKinds, active \in HookActiveValues, parsed \in BOOLEAN :
        RunStopHook(kind, active, parsed)

SpecHook == Init /\ [][SpecHookNext]_vars

\* normalizePhoneNumber on its own.
SpecNormInit ==
    /\ ServerInit
    /\ sigIn = SigIdle /\ sigOut = SigNoResult
    /\ getIn = GetIdle /\ getOut = GetNoResult
    /\ histOut = HistNoResult
    /\ NormInit
    /\ cfgIn = CfgIdle /\ cfgOut = CfgNoResult
    /\ hookRuns = <<>>

SpecNormNext == Normalize

SpecNorm == SpecNormInit /\ [][SpecNormNext]_vars

(***************************************************************************)
(* The reply-wait table                                                    *)
(***************************************************************************)
\* Delivery d's suspended handleIncomingMessage resumes in this step: the history
\* push and the onMessageReceived callback run.
Dispatches(d) ==
    /\ deliveries[d].pc = "markAsRead"
    /\ deliveries'[d] # deliveries[d]

DispatchedMessage(d) == deliveries[d].event.items[deliveries[d].idx]

Settled(c) == calls[c].promise \in {"fulfilled", "rejected"}

\* C1: for all numbers a and b with normalize(a) = normalize(b), the reply-wait that
\* send_message registered under a (the configured operator number) and that the
\* table holds is resolved, with the message's text, when the webhook reports a
\* supported message whose sender is b.
C1_NormalizedSenderResolvesWait ==
    [][\A d \in 1..Len(deliveries) :
         (/\ Dispatches(d)
          /\ normalizePhoneNumber(DispatchedMessage(d).from)
               = normalizePhoneNumber(userPhoneNumber)
          /\ normalizePhoneNumber(userPhoneNumber) \in DOMAIN pendingResponses)
         => LET w == pendingResponses[normalizePhoneNumber(userPhoneNumber)]
            IN  /\ calls'[w].promise = "fulfilled"
                /\ calls'[w].value = extractText(DispatchedMessage(d))]_vars

\* A wait registered under "+15" was resolved with "hi", a text that only the
\* senders "15" and "16" send: the sender's format differed from the configured one.
C1_Witness ==
    /\ userPhoneNumber = <<"+", "1", "5">>
    /\ \E w \in 1..Len(calls) : calls[w].promise = "fulfilled" /\ calls[w].value = "hi"

\* C2: register(key) followed by resolve(key, T) with no timeout in between: the
\* waiter that registered receives exactly T, its timer is cancelled, and the table
\* has no entry for key afterwards.
C2_ResolveDeliversTextAndRemovesEntry ==
    [][\A d \in 1..Len(deliveries) :
         LET key == normalizePhoneNumber(DispatchedMessage(d).from)
         IN  (Dispatches(d) /\ key \in DOMAIN pendingResponses)
             => LET w == pendingResponses[key]
                IN  /\ calls[w].timer = "armed"
                    /\ calls'[w].timer = "cleared"
                    /\ calls'[w].promise = "fulfilled"
                    /\ calls'[w].result = "replied"
                    /\ calls'[w].value = extractText(DispatchedMessage(d))
                    /\ key \notin DOMAIN pendingResponses']_vars

\* A waiter was resolved with "ok", its timer is cancelled and the table is empty.
C2_Witness ==
    /\ pendingResponses = <<>>
    /\ \E w \in 1..Len(calls) :
         /\ calls[w].promise = "fulfilled"
         /\ calls[w].value = "ok"
         /\ calls[w].timer = "cleared"

\* C3: every registered reply-wait gets at most one terminal outcome over any
\* interleaving: resolve and reject are invoked at most once in total on it, so it
\* is never resolved and failed, and never settled twice; a settled waiter was
\* settled by exactly one of the two (its timer was cancelled by the resolution, or
\* it fired).
C3_ExactlyOneOutcome ==
    \A c \in 1..Len(calls) :
        /\ calls[c].settleCalls <= 1
        /\ calls[c].settleCalls = 1 <=> Settled(c)
        /\ calls[c].promise = "fulfilled" => calls[c].timer = "cleared"
        /\ calls[c].promise = "rejected" => calls[c].timer = "fired"
        /\ calls[c].promise = "pending" => calls[c].timer = "armed"

\* Two waits for the same key, registered one while the other was outstanding, have
\* both ended: one with a reply, the other with a timeout.
C3_Witness ==
    /\ Len(regOrder) = 2
    /\ \E c1, c2 \in 1..Len(calls) :
         /\ calls[c1].promise = "fulfilled" /\ calls[c1].settleCalls = 1
         /\ calls[c2].promise = "rejected" /\ calls[c2].settleCalls = 1
         /\ calls[c2].timer = "fired"

\* C4: every registered reply-wait eventually terminates, with a reply or with a
\* timeout, given that armed timers eventually fire; also a waiter whose table
\* entry was overwritten, and also when no inbound message ever arrives.
C4_EveryWaitTerminates ==
    \A c \in 1..MaxCalls :
        (c <= Len(calls) /\ calls[c].promise = "pending")
        ~> (c <= Len(calls) /\ calls[c].promise \in {"fulfilled", "rejected"})

\* Two waits were registered, the first was overwritten by the second, no webhook
\* delivery ever arrived, and both have ended with a timeout.
C4_Witness ==
    /\ Len(regOrder) = 2
    /\ deliveries = <<>>
    /\ \A c \in 1..Len(calls) : calls[c].promise = "rejected"

\* C5: with two waits outstanding for the same number, an inbound reply resolves
\* only the most recently registered one; a waiter registered earlier is never
\* resolved by an inbound message and ends only by its own timer firing.
C5_OnlyLatestRegistrationResolved ==
    [][\A c \in 1..Len(calls) :
         (calls[c].promise = "pending" /\ calls'[c].promise # "pending")
         => \/ c = regOrder[Len(regOrder)]
            \/ /\ calls'[c].promise = "rejected"
               /\ calls[c].timer = "armed"
               /\ calls'[c].timer = "fired"]_vars

\* The later of two registered waits was resolved by a reply while the earlier one
\* is still waiting.
C5_Witness ==
    /\ Len(regOrder) = 2
    /\ calls[regOrder[2]].promise = "fulfilled"
    /\ calls[regOrder[1]].promise = "pending"

(***************************************************************************)
(* POST /webhook                                                           *)
(***************************************************************************)
\* Delivery record d is validly signed and carries exactly one text message.
OneTextMessage(d) ==
    /\ d.valid
    /\ d.event.parses
    /\ d.event.object = ProviderTag
    /\ Len(d.event.items) = 1
    /\ d.event.items[1].type = "text"
    /\ d.event.items[1].body # ""

\* The conversation the registry maps the raw number to holds a user entry with the text.
HasUserEntry(convs, p2c, from, text) ==
    /\ from \in DOMAIN p2c
    /\ \E i \in 1..Len(convs[p2c[from]].messageHistory) :
         convs[p2c[from]].messageHistory[i] = [role |-> "user", text |-> text]

\* C6 as stated: a validly-signed delivery with one text message from X is answered
\* 200, leaves a user entry with its text in the registry, and the waiter that the
\* table held for normalize(X) when the delivery was received is resolved with the text.
C6_AsStated ==
    \A d \in 1..Len(deliveries) :
        (OneTextMessage(deliveries[d]) /\ deliveries[d].pc = "done")
        => LET m == deliveries[d].event.items[1]
               key == normalizePhoneNumber(m.from)
           IN  /\ deliveries[d].response = 200
               /\ HasUserEntry(activeConversations, phoneToConversationId, m.from, m.body)
               /\ key \in DOMAIN received[d]
                    => /\ calls[received[d][key]].promise = "fulfilled"
                       /\ calls[received[d][key]].value = m.body

\* C6, amended: a validly-signed delivery with one text message from X is never
\* answered otherwise than 200, and in the step that dispatches the message (after
\* the mark-read call returned) the sender's conversation gains a user entry with
\* the text, the response becomes 200, and the waiter the table holds for
\* normalize(X) at that moment is resolved with the text.
C6_OneTextMessageDelivery ==
    [][\A d \in 1..Len(deliveries') :
         OneTextMessage(deliveries'[d])
         => /\ deliveries'[d].response \in {0, 200}
            /\ deliveries'[d].response = 0 <=> deliveries'[d].pc = "markAsRead"
            /\ (d <= Len(deliveries) /\ Dispatches(d))
               => LET m == DispatchedMessage(d)
                      key == normalizePhoneNumber(m.from)
                      conv == phoneToConversationId[m.from]
                  IN  /\ deliveries'[d].response = 200
                      /\ activeConversations'[conv].messageHistory
                           = Append(activeConversations[conv].messageHistory,
                                    [role |-> "user", text |-> m.body])
                      /\ HasUserEntry(activeConversations', phoneToConversationId',
                                      m.from, m.body)
                      /\ key \in DOMAIN pendingResponses
                           => /\ calls'[pendingResponses[key]].promise = "fulfilled"
                              /\ calls'[pendingResponses[key]].value = m.body]_vars

\* A delivery with the one text message "hi" from "15" was answered 200, the
\* conversation of "15" holds the user entry, and a waiter received "hi".
C6_Witness ==
    \E d \in 1..Len(deliveries) :
        /\ OneTextMessage(deliveries[d])
        /\ deliveries[d].event.items[1] = TextHi
        /\ deliveries[d].response = 200
        /\ HasUserEntry(activeConversations, phoneToConversationId, TextHi.from, "hi")
        /\ \E w \in 1..Len(calls) : calls[w].promise = "fulfilled" /\ calls[w].value = "hi"

\* C7: a delivery whose signature verification fails is answered 401 and nothing
\* else happens: no conversation is created, no history entry appended, no pending
\* entry resolved or removed, no waiter settled, and no provider call made.
C7_BadSignatureRejectedUntouched ==
    [][/\ \A d \in 1..Len(deliveries') :
            ~deliveries'[d].valid
            => deliveries'[d].response = 401 /\ deliveries'[d].pc = "done"
       /\ (Len(deliveries') = Len(deliveries) + 1 /\ ~deliveries'[Len(deliveries')].valid)
          => UNCHANGED <<activeConversations, phoneToConversationId, currentConversationId,
                         pendingResponses, calls, regOrder, gateway>>]_vars

\* A delivery was rejected with 401 while a reply-wait is registered and still pending.
C7_Witness ==
    /\ \E d \in 1..Len(deliveries) : ~deliveries[d].valid /\ deliveries[d].response = 401
    /\ pendingResponses # <<>>
    /\ \E w \in 1..Len(calls) : calls[w].promise = "pending"

(***************************************************************************)
(* The signature check and the verification handshake                      *)
(***************************************************************************)
\* The hexadecimal text the header carries after its prefix.
ClaimedDigest == substring(sigIn.signature, Len(Sha256Prefix))

\* C8 as stated: the header sha256=<hex(HMAC_SHA256(S, B))> is accepted for (S, B),
\* and every header or body obtained from that pair by changing one byte of the
\* body or of the header is rejected.
C8_AsStated ==
    sigOut.done
    => /\ sigIn.edit = "none" => sigOut.valid
       /\ sigIn.edit \in {"headerByte", "bodyByte"} => ~sigOut.valid

\* C9 as stated: verification fails whenever the header is missing or empty, lacks
\* the sha256= prefix, or carries a digest whose length differs from the length of
\* the computed (hexadecimal) digest.
C9_AsStated ==
    (/\ sigOut.done
     /\ \/ sigIn.signature \in {Null, <<>>}
        \/ ~startsWith(sigIn.signature, Sha256Prefix)
        \/ Len(ClaimedDigest) # 2 * DigestLen)
    => ~sigOut.valid

\* C10: GET /webhook answers 200 with the raw challenge as body iff hub.mode is
\* subscribe and hub.verify_token equals the configured token (same length, same
\* characters); in every other case it answers 403.
C10_HandshakeIffTokenMatches ==
    getOut.status # 0
    => /\ getOut.status \in {200, 403}
       /\ getOut.status = 200
            <=> (getIn.mode = Subscribe /\ getIn.token = getIn.expected)
       /\ getOut.status = 200 => getOut.body = getIn.challenge

\* A handshake with the configured two-character token was answered 200 with the
\* challenge.
C10_Witness ==
    /\ getOut.status = 200
    /\ Len(getIn.expected) = 2
    /\ getIn.token = getIn.expected
    /\ getOut.body = <<"42">>

(***************************************************************************)
(* Error handling of POST /webhook and of send_message                     *)
(***************************************************************************)
\* The step receives a delivery (the body of a POST /webhook is complete).
Receives == Len(deliveries') = Len(deliveries) + 1

Received == deliveries'[Len(deliveries')]

\* C11 as stated: a validly-signed delivery whose body was parsed is answered 200
\* once it is answered, whatever its nested entries are (a change without a value,
\* an unsupported message, a status) and whether or not the mark-read call failed.
C11_AsStated ==
    \A d \in 1..Len(deliveries) :
        (deliveries[d].valid /\ deliveries[d].event.parses /\ deliveries[d].pc = "done")
        => deliveries[d].response = 200

\* C12: a validly-signed delivery whose body cannot be parsed is answered 400 in
\* the step that receives it, and that step changes neither the Conversation
\* Registry nor the Pending-Reply Table (nor any waiter).
C12_UnparseableRejectedUntouched ==
    [][(Receives /\ Received.valid /\ ~Received.event.parses)
       => /\ Received.response = 400
          /\ Received.pc = "done"
          /\ UNCHANGED <<activeConversations, phoneToConversationId,
                         currentConversationId, pendingResponses, calls>>]_vars

\* A validly-signed unparseable delivery was answered 400 while a conversation
\* exists and a reply-wait is registered.
C12_Witness ==
    /\ \E d \in 1..Len(deliveries) :
         /\ deliveries[d].valid
         /\ ~deliveries[d].event.parses
         /\ deliveries[d].response = 400
    /\ activeConversations # <<>>
    /\ pendingResponses # <<>>

\* C13 as stated: a validly-signed delivery whose body parses to any value whose
\* top-level tag is not whatsapp_business_account is answered 200 in the step that
\* receives it, and that step changes neither the registry nor the table.
C13_AsStated ==
    [][(/\ Receives
        /\ Received.valid
        /\ Received.event.parses
        /\ Received.event.object # ProviderTag)
       => /\ Received.response = 200
          /\ UNCHANGED <<activeConversations, phoneToConversationId,
                         currentConversationId, pendingResponses, calls>>]_vars

\* C14: a send_message call with wait_for_reply = true whose send succeeded (its
\* wait was registered) never returns the error result: while the wait is pending
\* it has not returned, a resolved wait returns the reply result with the reply
\* text, and a timed-out wait returns the distinct no-reply result.
C14_WaitNeverReturnsError ==
    \A c \in 1..Len(calls) :
        (calls[c].wait /\ calls[c].promise # "none")
        => /\ calls[c].result # "error"
           /\ calls[c].promise = "pending"
                => calls[c].result = "none" /\ calls[c].pc = "waiting"
           /\ calls[c].promise = "fulfilled"
                => /\ calls[c].result = "replied"
                   /\ calls[c].value \in {"hi", "ok"}
                   /\ calls[c].pc = "done"
           /\ calls[c].promise = "rejected"
                => calls[c].result = "noreply" /\ calls[c].pc = "done"

\* Two waiting calls have returned: one with the reply result, one with the
\* no-reply result.
C14_Witness ==
    \E c1, c2 \in 1..Len(calls) :
        /\ calls[c1].wait /\ calls[c1].result = "replied" /\ calls[c1].value = "ok"
        /\ calls[c2].wait /\ calls[c2].result = "noreply" /\ calls[c2].timer = "fired"

\* The positions <<conversation, index>> of the history entries with the role.
EntriesOf(convs, role) ==
    UNION {{<<i, j>> : j \in {k \in 1..Len(convs[i].messageHistory) :
                                convs[i].messageHistory[k].role = role}} :
           i \in 1..Len(convs)}

\* C15: when the gateway send of a send_message call fails, the call returns the
\* error result, and the failing step appends nothing to any history and registers
\* no pending entry; the failed call never has a wait, a timer or a table entry,
\* also with wait_for_reply = true, and the histories hold one assistant entry for
\* each call whose send succeeded and none for the others.
C15_FailedSendLeavesNoTrace ==
    [][/\ \A c \in 1..Len(calls) :
            (calls[c].pc = "sending" /\ calls'[c].result = "error")
            => /\ calls'[c].pc = "done"
               /\ UNCHANGED <<activeConversations, phoneToConversationId,
                              pendingResponses, regOrder>>
       /\ \A c \in 1..Len(calls') :
            calls'[c].result = "error"
            => /\ calls'[c].promise = "none"
               /\ calls'[c].timer = "none"
               /\ \A k \in DOMAIN pendingResponses' : pendingResponses'[k] # c
               /\ \A i \in 1..Len(regOrder') : regOrder'[i] # c
       /\ Cardinality(EntriesOf(activeConversations', "claude"))
            = Cardinality({c \in 1..Len(calls') :
                             calls'[c].pc # "sending" /\ calls'[c].result # "error"})]_vars

\* A call with wait_for_reply = true failed to send: its conversation exists with
\* an empty history and the table is empty.
C15_Witness ==
    \E c \in 1..Len(calls) :
        /\ calls[c].wait
        /\ calls[c].result = "error"
        /\ activeConversations[calls[c].conv].messageHistory = <<>>
        /\ pendingResponses = <<>>

(***************************************************************************)
(* The Conversation Registry                                               *)
(***************************************************************************)
\* The conversations whose raw phone number is p.
ConversationsOf(convs, p) == {i \in 1..Len(convs) : convs[i].userPhoneNumber = p}

\* C16: every getOrCreate on a raw number returns the id the first one returned:
\* a number's mapping, once recorded, never changes; every send_message call holds
\* the id mapped to the operator number and every dispatched inbound message the id
\* mapped to its sender's raw number; and each mapped raw number has exactly one
\* conversation, whatever sends, deliveries and other numbers come in between.
C16_GetOrCreateStable ==
    [][/\ \A p \in DOMAIN phoneToConversationId :
            /\ p \in DOMAIN phoneToConversationId'
            /\ phoneToConversationId'[p] = phoneToConversationId[p]
       /\ \A c \in 1..Len(calls') :
            calls'[c].conv = phoneToConversationId'[userPhoneNumber]
       /\ \A d \in 1..Len(deliveries') :
            deliveries'[d].conv # 0
            => deliveries'[d].conv
                 = phoneToConversationId'[deliveries'[d].event.items[deliveries'[d].idx].from]
       /\ \A p \in DOMAIN phoneToConversationId' :
            Cardinality(ConversationsOf(activeConversations', p)) = 1]_vars

\* Two send_message calls and two inbound messages of one raw number all got the
\* same conversation, which holds their four entries, while another raw number
\* got a conversation in between.
C16_Witness ==
    /\ Len(calls) = 2
    /\ calls[1].conv = calls[2].conv
    /\ Len(activeConversations) = 2
    /\ \E i \in 1..Len(activeConversations) :
         /\ activeConversations[i].userPhoneNumber = userPhoneNumber
         /\ Len(activeConversations[i].messageHistory) = 4

\* C17: in every reachable state the phone-to-conversation mapping points, for
\* each raw number, to an existing active conversation record whose phone number
\* is that raw number; no two conversation records have the same raw number; and
\* every record is the one its number is mapped to.
C17_OneConversationPerRawNumber ==
    /\ \A p \in DOMAIN phoneToConversationId :
         /\ phoneToConversationId[p] \in 1..Len(activeConversations)
         /\ activeConversations[phoneToConversationId[p]].userPhoneNumber = p
         /\ activeConversations[phoneToConversationId[p]].active
    /\ \A i, j \in 1..Len(activeConversations) :
         activeConversations[i].userPhoneNumber = activeConversations[j].userPhoneNumber
         => i = j
    /\ \A i \in 1..Len(activeConversations) :
         /\ activeConversations[i].userPhoneNumber \in DOMAIN phoneToConversationId
         /\ phoneToConversationId[activeConversations[i].userPhoneNumber] = i

\* The raw numbers "15" and "+15" (one normalized key) each have their own
\* conversation, and one of them was reused for a second entry.
C17_Witness ==
    /\ DOMAIN phoneToConversationId = {<<"1", "5">>, <<"+", "1", "5">>}
    /\ Len(activeConversations) = 2
    /\ \E i \in 1..2 : Len(activeConversations[i].messageHistory) >= 2

\* The step is a get_conversation_history call on a registry with a conversation.
HistoryRequested == ~histOut.done /\ histOut'.done /\ activeConversations # <<>>

\* C18 as stated: for every limit L >= 0, the request returns the last min(L, n)
\* entries of the n-entry history of the conversation it reports, in append order
\* (the whole history when L exceeds n).
C18_AsStated ==
    [][HistoryRequested
       => LET history == activeConversations[histOut'.conversationId].messageHistory
              n == Len(history)
              k == Min(histOut'.limit, n)
          IN  histOut'.messages = SubSeq(history, n - k + 1, n)]_vars

\* C19: get_conversation_history reports the conversation that was created last:
\* its id is the last id minted, and no conversation of the registry has a later id.
C19_HistoryOfLatestConversation ==
    [][HistoryRequested
       => /\ histOut'.conversationId = currentConversationId
          /\ \A i \in 1..Len(activeConversations) :
               activeConversations[i].conversationId <= histOut'.conversationId]_vars

\* After a send created the operator's conversation and a message from another
\* number created a second one, the request reported the second, with its entry.
C19_Witness ==
    /\ histOut.done
    /\ histOut.conversationId = 2
    /\ Len(activeConversations) = 2
    /\ activeConversations[1].userPhoneNumber = userPhoneNumber
    /\ histOut.messages = <<[role |-> "user", text |-> "hi"]>>

(***************************************************************************)
(* The Phone Number Normalizer                                             *)
(***************************************************************************)
\* The decimal digits of x, in their order.
RECURSIVE DigitsOf(_)
DigitsOf(x) ==
    IF x = <<>> THEN <<>>
    ELSE (IF Head(x) \in Digits THEN <<Head(x)>> ELSE <<>>) \o DigitsOf(Tail(x))

\* C20: normalize is defined on every string; its result holds only decimal
\* digits, namely the digits of the input in their order, and normalizing the
\* result again gives the result.
C20_NormalizeTotalIdempotent ==
    normOut.done
    => /\ \A i \in 1..Len(normOut.key) : normOut.key[i] \in Digits
       /\ normOut.key = DigitsOf(normIn)
       /\ normalizePhoneNumber(normOut.key) = normOut.key

\* "+1-" was normalized to "1": two non-digits around a digit were removed.
C20_Witness ==
    /\ normOut.done
    /\ normIn = <<"+", "1", "-">>
    /\ normOut.key = <<"1">>

(***************************************************************************)
(* The Webhook Event Processor: what each kind of entry does               *)
(***************************************************************************)
\* C21 as stated: when an inbound message is dispatched and the table holds no
\* entry for its normalized sender, the table and every call are left as they
\* were, the message is appended to the sender's conversation with role user, and
\* the delivery is not answered otherwise than 200.
C21_AsStated ==
    [][\A d \in 1..Len(deliveries) :
         (/\ Dispatches(d)
          /\ normalizePhoneNumber(DispatchedMessage(d).from) \notin DOMAIN pendingResponses)
         => LET m == DispatchedMessage(d)
                conv == phoneToConversationId[m.from]
            IN  /\ pendingResponses' = pendingResponses
                /\ calls' = calls
                /\ activeConversations'[conv].messageHistory
                     = Append(activeConversations[conv].messageHistory,
                              [role |-> "user", text |-> extractText(m)])
                /\ deliveries'[d].response \in {0, 200}]_vars

\* The entry matches an extraction rule: a text message with a body or a button
\* reply with a text label.
MatchesRule(m) == m.type \in {"text", "button"} /\ m.body # ""

\* The entries <<delivery, position>> that match a rule and that processing has
\* reached, and those of them whose handling has completed.
Reached ==
    UNION {{<<d, i>> : i \in {k \in 1..Len(deliveries[d].event.items) :
                                /\ MatchesRule(deliveries[d].event.items[k])
                                /\ k <= deliveries[d].idx}} :
           d \in 1..Len(deliveries)}

Handled ==
    {r \in Reached : deliveries[r[1]].pc = "done" \/ r[2] < deliveries[r[1]].idx}

\* C23: a message entry that matches no extraction rule is passed over without
\* effect: processing never stops on one, mark-read calls, user entries and
\* conversations exist only for the entries that match a rule (and for the
\* operator's sends), no call is settled when a delivery holds no matching entry,
\* and the entries after it are processed: a delivery answered 200 has reached
\* every matching entry it holds.
C23_UnsupportedEntrySkipped ==
    /\ gateway.markAsRead = Cardinality(Reached)
    /\ Cardinality(EntriesOf(activeConversations, "user")) = Cardinality(Handled)
    /\ \A i \in 1..Len(activeConversations) :
         \/ calls # <<>> /\ activeConversations[i].userPhoneNumber = userPhoneNumber
         \/ \E r \in Reached :
              deliveries[r[1]].event.items[r[2]].from = activeConversations[i].userPhoneNumber
    /\ \A d \in 1..Len(deliveries) :
         /\ deliveries[d].idx # 0 => MatchesRule(deliveries[d].event.items[deliveries[d].idx])
         /\ (deliveries[d].response = 200 /\ deliveries[d].event.object = ProviderTag)
            => \A k \in 1..Len(deliveries[d].event.items) :
                 MatchesRule(deliveries[d].event.items[k]) => <<d, k>> \in Handled
    /\ Reached = {} => \A c \in 1..Len(calls) : calls[c].promise # "fulfilled"

\* A delivery of an image followed by the text "ok" from "+15" was answered 200:
\* one mark-read call was made, and the one conversation is that of "+15", with
\* the one user entry "ok".
C23_Witness ==
    /\ Len(deliveries) = 1
    /\ deliveries[1].event.items = <<Image, TextOk>>
    /\ deliveries[1].response = 200
    /\ calls = <<>>
    /\ gateway.markAsRead = 1
    /\ Len(activeConversations) = 1
    /\ activeConversations[1].userPhoneNumber = TextOk.from
    /\ activeConversations[1].messageHistory = <<[role |-> "user", text |-> "ok"]>>

\* C25: whenever a waiter has received the reply text T, a conversation of a
\* sender with the waiter's normalized number holds a user entry with text T: the
\* entry is appended before the callback resolves the waiter.
C25_HistoryBeforeResolve ==
    \A c \in 1..Len(calls) :
        calls[c].promise = "fulfilled"
        => \E i \in 1..Len(activeConversations) :
             /\ normalizePhoneNumber(activeConversations[i].userPhoneNumber)
                  = normalizePhoneNumber(userPhoneNumber)
             /\ \E k \in 1..Len(activeConversations[i].messageHistory) :
                  activeConversations[i].messageHistory[k]
                    = [role |-> "user", text |-> calls[c].value]

\* A waiter received "ok" and the conversation of the sender "+15" ends with the
\* user entry "ok".
C25_Witness ==
    /\ \E c \in 1..Len(calls) : calls[c].promise = "fulfilled" /\ calls[c].value = "ok"
    /\ \E i \in 1..Len(activeConversations) :
         /\ activeConversations[i].userPhoneNumber = TextOk.from
         /\ activeConversations[i].messageHistory # <<>>
         /\ activeConversations[i].messageHistory[Len(activeConversations[i].messageHistory)]
              = [role |-> "user", text |-> "ok"]

\* C26: a delivery whose entries are status updates is answered 200 in the step
\* that receives it (handling a status does not throw), and that step changes
\* neither the registry nor the table nor a call and makes no gateway call.
C26_StatusEntryMutatesNothing ==
    [][(/\ Receives
        /\ Received.valid
        /\ Received.event.object = ProviderTag
        /\ Received.event.items # <<>>
        /\ \A k \in 1..Len(Received.event.items) : Received.event.items[k].type = "status")
       => /\ Received.response = 200
          /\ Received.pc = "done"
          /\ UNCHANGED <<activeConversations, phoneToConversationId,
                         currentConversationId, pendingResponses, calls, gateway>>]_vars

\* A status delivery was answered 200 while a reply-wait is registered and pending,
\* and no mark-read call was ever made.
C26_Witness ==
    /\ \E d \in 1..Len(deliveries) :
         /\ deliveries[d].event.items = <<Status>>
         /\ deliveries[d].response = 200
    /\ pendingResponses # <<>>
    /\ \E c \in 1..Len(calls) : calls[c].promise = "pending"
    /\ gateway.markAsRead = 0

\* C24 as stated: when the mark-read call of an inbound message failed, the message
\* is still appended to its sender's conversation with role user, the waiter the
\* table holds for the normalized sender is still resolved with its text, the
\* entries after it are processed, and the delivery is not answered otherwise
\* than 200. (Checked on the runs in which every mark-read call fails.)
C24_AsStated ==
    [][\A d \in 1..Len(deliveries) :
         Dispatches(d)
         => LET m == DispatchedMessage(d)
                key == normalizePhoneNumber(m.from)
                conv == phoneToConversationId[m.from]
            IN  /\ activeConversations'[conv].messageHistory
                     = Append(activeConversations[conv].messageHistory,
                              [role |-> "user", text |-> extractText(m)])
                /\ key \in DOMAIN pendingResponses
                     => /\ calls'[pendingResponses[key]].promise = "fulfilled"
                        /\ calls'[pendingResponses[key]].value = extractText(m)
                /\ deliveries'[d].pc = "markAsRead" => deliveries'[d].idx > deliveries[d].idx
                /\ deliveries'[d].response \in {0, 200}]_vars

(***************************************************************************)
(* Races and keys                                                          *)
(***************************************************************************)
\* C28 as stated: while the most recently registered waiter has neither been
\* resolved nor timed out, the table holds its entry under the operator's
\* normalized number (the only key ever registered); the timeout of an earlier
\* waiter does not remove it.
C28_AsStated ==
    regOrder # <<>>
    => LET latest == regOrder[Len(regOrder)]
           key == normalizePhoneNumber(userPhoneNumber)
       IN  calls[latest].promise = "pending"
           => key \in DOMAIN pendingResponses /\ pendingResponses[key] = latest

\* C29 as stated: the assistant messages sent to the operator number p and the
\* user messages of every sender q with normalize(q) = normalize(p) are recorded
\* in one conversation: every call and every dispatched message of such a sender
\* have the same conversation, and no two conversations have numbers with the
\* operator's normalized form.
C29_AsStated ==
    /\ \A c \in 1..Len(calls), d \in 1..Len(deliveries) :
         (/\ deliveries[d].idx # 0
          /\ normalizePhoneNumber(deliveries[d].event.items[deliveries[d].idx].from)
               = normalizePhoneNumber(userPhoneNumber))
         => deliveries[d].conv = calls[c].conv
    /\ \A i, j \in 1..Len(activeConversations) :
         (/\ normalizePhoneNumber(activeConversations[i].userPhoneNumber)
               = normalizePhoneNumber(userPhoneNumber)
          /\ normalizePhoneNumber(activeConversations[j].userPhoneNumber)
               = normalizePhoneNumber(userPhoneNumber))
         => i = j

\* C30 as stated: a delivery answered 401 or 400 has dispatched nothing: none of
\* its entries was reached, so that it created no conversation, appended no
\* entry, made no gateway call and resolved no waiter.
C30_AsStated ==
    \A d \in 1..Len(deliveries) :
        deliveries[d].response \in {400, 401}
        => deliveries[d].idx = 0 /\ deliveries[d].conv = 0

(***************************************************************************)
(* Startup and the stop hook                                               *)
(***************************************************************************)
\* The required values that the environment lacks.
MissingValues == ConfigNames \ cfgIn.present

\* C22 as stated: for every set of the seven required values that is absent, the
\* system fails to start iff the set is not empty, and the failure report lists
\* exactly the values of the set.
C22_AsStated ==
    cfgOut.done
    => /\ cfgOut.started <=> MissingValues = {}
       /\ ~cfgOut.started
            => {cfgOut.report[i] : i \in 1..Len(cfgOut.report)} = MissingValues

\* C27: every run of the stop hook exits with status 0; it emits the block decision
\* only if ConvertFrom-Json read its input and stop_hook_active is not true; it
\* emits the empty decision when stop_hook_active is true and when the input
\* could not be parsed; and a run that follows a blocked stop never blocks.
C27_StopHookBlocksAtMostOnce ==
    \A i \in 1..Len(hookRuns) :
        /\ hookRuns[i].exit = 0
        /\ hookRuns[i].decision \in {"block", "allow"}
        /\ hookRuns[i].decision = "block"
             => hookRuns[i].parsed /\ hookRuns[i].active # "true"
        /\ (~hookRuns[i].parsed \/ hookRuns[i].active = "true")
             => hookRuns[i].decision = "allow"
        /\ (i > 1 /\ hookRuns[i - 1].decision = "block")
             => hookRuns[i].decision = "allow"

\* A stop was blocked, the next attempt was allowed, and the one after it was
\* blocked again.
C27_Witness ==
    /\ Len(hookRuns) = 3
    /\ hookRuns[1].decision = "block"
    /\ hookRuns[2].decision = "allow" /\ hookRuns[2].active = "true"
    /\ hookRuns[3].decision = "block" /\ hookRuns[3].active = "false"

(***************************************************************************)
(* Order of inbound messages, table entries, other senders                 *)
(***************************************************************************)
\* C31 as stated: the messages of one sender are appended to the history, and
\* offered to the table, in the order of their reception: when a message is
\* dispatched, no delivery received earlier is still suspended on the mark-read
\* call of a message of the same sender.
C31_AsStated ==
    [][\A d \in 1..Len(deliveries) :
         Dispatches(d)
         => \A e \in 1..(d - 1) :
              ~(/\ deliveries[e].pc = "markAsRead"
                /\ DispatchedMessage(e).from = DispatchedMessage(d).from)]_vars

\* C32: every entry of the table belongs to a call that is still waiting: its
\* promise is pending and its own timer is armed, neither fired nor cancelled; a
\* call that has terminated has no entry and was settled once; and, armed timers
\* firing eventually, every entry leaves the table.
C32_EntriesBelongToLiveWaiters ==
    /\ [](\A key \in DOMAIN pendingResponses :
            LET c == pendingResponses[key]
            IN  /\ c \in 1..Len(calls)
                /\ calls[c].pc = "waiting"
                /\ calls[c].promise = "pending"
                /\ calls[c].timer = "armed"
                /\ calls[c].settleCalls = 0)
    /\ [](\A c \in 1..Len(calls) :
            calls[c].promise \in {"fulfilled", "rejected"}
            => /\ calls[c].settleCalls = 1
               /\ \A key \in DOMAIN pendingResponses : pendingResponses[key] # c)
    /\ \A c \in 1..MaxCalls :
         (\E key \in DOMAIN pendingResponses : pendingResponses[key] = c)
         ~> (\A key \in DOMAIN pendingResponses : pendingResponses[key] # c)

\* The second of two registered waits holds the table entry and is still waiting,
\* after the first one was resolved by a reply.
C32_Witness ==
    /\ Len(regOrder) = 2
    /\ calls[regOrder[1]].promise = "fulfilled"
    /\ pendingResponses # <<>>
    /\ \A key \in DOMAIN pendingResponses : pendingResponses[key] = regOrder[2]
    /\ calls[regOrder[2]].timer = "armed"

\* C33: a step that receives or dispatches a message of a sender whose normalized
\* number differs from the operator's leaves the table and every call as they
\* were, and changes no conversation that exists other than that sender's own.
C33_OtherSenderLeavesWaitAlone ==
    [][/\ \A d \in 1..Len(deliveries) :
            (/\ Dispatches(d)
             /\ normalizePhoneNumber(DispatchedMessage(d).from)
                  # normalizePhoneNumber(userPhoneNumber))
            => /\ pendingResponses' = pendingResponses
               /\ calls' = calls
               /\ \A i \in 1..Len(activeConversations) :
                    i # phoneToConversationId[DispatchedMessage(d).from]
                    => activeConversations'[i] = activeConversations[i]
       /\ (/\ Receives
           /\ Received.idx # 0
           /\ normalizePhoneNumber(Received.event.items[Received.idx].from)
                # normalizePhoneNumber(userPhoneNumber))
          => /\ pendingResponses' = pendingResponses
             /\ calls' = calls
             /\ \A i \in 1..Len(activeConversations) :
                  activeConversations'[i] = activeConversations[i]]_vars

\* The message "hi" of "16" was recorded in the conversation of "16" and answered
\* 200 while the operator's reply-wait is still in the table, pending.
C33_Witness ==
    /\ \E d \in 1..Len(deliveries) :
         deliveries[d].event.items = <<TextOther>> /\ deliveries[d].response = 200
    /\ HasUserEntry(activeConversations, phoneToConversationId, TextOther.from, "hi")
    /\ normalizePhoneNumber(userPhoneNumber) \in DOMAIN pendingResponses
    /\ calls[pendingResponses[normalizePhoneNumber(userPhoneNumber)]].promise = "pending"

====
